---- MODULE Spec2Model ----
(***************************************************************************)
(* Model of budget_tracker.py: an interactive ledger over an SQLite store. *)
(* The state is the content of the tables as seen through the one open     *)
(* connection, the position of the session in the prompt loops of the      *)
(* current menu handler, the handler's local variables and the last line   *)
(* printed.  Every step consumes the input lines of one prompt group and   *)
(* runs the handler up to its next prompt or its return to the menu.       *)
(***************************************************************************)
EXTENDS Integers, Sequences, FiniteSets, TLC

\* Bounds of the model.
MaxId == 3          \* record ids assigned
MaxRecords == 2     \* record rows in the store, both tables together
MaxCategories == 2  \* category rows ever inserted, both tables together
MaxGoals == 2       \* goal rows in the store

Kinds == {"expense", "income"}

NULL == <<>>

(***************************************************************************)
(* Text conversions, given on the lines the model types.                   *)
(***************************************************************************)
\* str.lower()
Lower(s) ==
  CASE s = "Food" -> "food"
    [] s = "Kit" -> "kit"
    [] s = "YES" -> "yes"
    [] s = "No" -> "no"
    [] s = "Back" -> "back"
    [] s = "Delete" -> "delete"
    [] s = "Update" -> "update"
    [] OTHER -> s

\* str.strip()
Strip(s) ==
  CASE s = " 10" -> "10"
    [] s = "update " -> "update"
    [] s = "Update " -> "Update"
    [] s = "rent " -> "rent"
    [] s = " 20" -> "20"
    [] s = "2024-02-29 " -> "2024-02-29"
    [] s = " " -> ""
    [] OTHER -> s

\* The fields strptime(s, "%Y-%m-%d") reads, << >> when s does not match.
DateFields(s) ==
  CASE s = "2024-02-29" -> <<2024, 2, 29>>
    [] s = "2023-12-31" -> <<2023, 12, 31>>
    [] s = "2023-02-29" -> <<2023, 2, 29>>
    [] s = "2024-13-01" -> <<2024, 13, 1>>
    [] OTHER -> << >>

IsLeap(y) == (y % 4 = 0 /\ y % 100 # 0) \/ y % 400 = 0

DaysInMonth(y, m) ==
  IF m = 2 THEN (IF IsLeap(y) THEN 29 ELSE 28)
  ELSE IF m \in {4, 6, 9, 11} THEN 30 ELSE 31

\* strptime(s, "%Y-%m-%d") does not raise ValueError
IsDate(s) ==
  LET f == DateFields(s) IN
    /\ f # << >>
    /\ f[1] >= 1
    /\ f[2] \in 1..12
    /\ f[3] \in 1..DaysInMonth(f[1], f[2])

IntRange == 0..(MaxId + MaxCategories + 1)

\* int(s) does not raise ValueError
IsInt(s) == \E i \in IntRange : ToString(i) = s

\* int(s)
IntOf(s) == CHOOSE i \in IntRange : ToString(i) = s

\* float(s) does not raise ValueError
IsFloat(s) == s \in {"nan", "-5", "0", "10", "20", "25"}

\* float(s) is not a number
IsNaN(s) == s = "nan"

\* float(s), for the lines that are numbers
FloatOf(s) ==
  CASE s = "-5" -> -5
    [] s = "0" -> 0
    [] s = "10" -> 10
    [] s = "20" -> 20
    [] s = "25" -> 25
    [] OTHER -> 0

\* The value sqlite3 binds for float(s): NaN is bound as NULL.
BindReal(s) == IF IsNaN(s) THEN NULL ELSE <<FloatOf(s)>>

(***************************************************************************)
(* The lines the user types at each prompt.                                *)
(***************************************************************************)
DateInputs == {"2024-02-29", "2023-02-29", "soon"}
NewDateInputs == {"", "2023-12-31", "2024-13-01"}
NameInputs == {"Food", "rent"}
NewCategoryInputs == {"", "Food"}
NewNameInputs == {"", "Food", "rent"}
DescInputs == {"", "Kit"}
AmountInputs == {"", "abc", "nan", "-5", " 10"}
NewAmountInputs == {"", "abc", "nan", " 10"}
BudgetInputs == {"abc", "nan", "-5", "0", "25"}
ConfirmInputs == {"YES", "No", "maybe"}
IdInputs == {"Back", "abc"} \cup {ToString(i) : i \in 1..MaxId}
ChoiceInputs == {"Delete", "Update ", "back", "other"}
GoalAmountInputs == {"abc", "nan", "0", "10", " 20"}
GoalDateInputs == {"2024-02-29 ", "2023-02-29"}
GoalCategoryInputs == {"", "abc"} \cup {ToString(i) : i \in 1..MaxCategories}

(***************************************************************************)
(* State.                                                                  *)
(***************************************************************************)
VARIABLES
  records,     \* records[k]: the rows of table expenses / income
  categories,  \* categories[k]: the rows of expense_categories / income_categories
  catSeq,      \* catSeq[k]: the AUTOINCREMENT sequence of the category table
  pc,          \* the prompt the session waits at
  kind,        \* the kind of the running handler, "none" at the menu
  loc,         \* the lines read into the locals of the running handler, and new_id
  out,         \* the last message printed, "" when the step printed none
  prev,        \* history: the prompt and the kind the last step started from,
               \* and the ids of the category rows it deleted
  retired,     \* history, kept under SpecIds: retired[k] holds the ids deleted
               \* while they were the maximum of table k
  goals,       \* the rows of table financial_goals
  report,      \* the figures the last step printed, << >> when it printed none
  started      \* history, kept under SpecAbort: the rows of the two tables of
               \* the kind when the running handler was called

vars ==
  <<records, categories, catSeq, pc, kind, loc, out, prev, retired, goals, report,
    started>>

NoLocals ==
  [action |-> "", choice |-> "", date |-> "", category |-> "",
   description |-> "", amount |-> "", new_id |-> 0]

(***************************************************************************)
(* SQL statements of the handlers, as operators on the tables.             *)
(***************************************************************************)
Max(S) == CHOOSE x \in S : \A y \in S : y <= x

Ids(rows) == {r.id : r \in rows}

\* SELECT id FROM <k>_categories WHERE name = ?
SelectCategoryId(cats, name) == {c.id : c \in {d \in cats : d.name = name}}

\* INSERT INTO <k>_categories (name) VALUES (?): the row AUTOINCREMENT adds
NewCategoryRow(seq, name) == [id |-> seq + 1, name |-> name, budget_limit |-> NULL]

\* Mutant of ResolveCategoryId: lastrowid is used although the category exists.
ResolveCategoryIdLastRow(cats, seq, name) == seq + 1

\* The category id an add or update writes: the existing one, else lastrowid.
ResolveCategoryId(cats, seq, name) ==
  IF SelectCategoryId(cats, name) = {}
  THEN seq + 1
  ELSE CHOOSE i \in SelectCategoryId(cats, name) : TRUE

\* The category table after resolving name: unchanged, or with the new row.
ResolveCategories(cats, seq, name) ==
  IF SelectCategoryId(cats, name) = {}
  THEN cats \cup {NewCategoryRow(seq, name)}
  ELSE cats

ResolveSeq(cats, seq, name) ==
  IF SelectCategoryId(cats, name) = {} THEN seq + 1 ELSE seq

\* Mutant of NewId: the id of the first row of a table is 0.
NewIdFromZero(rows) == IF rows = {} THEN 0 ELSE Max(Ids(rows)) + 1

\* SELECT MAX(id) FROM <k>; new_id = latest_id + 1 if latest_id is not None else 1
NewId(rows) == IF rows = {} THEN 1 ELSE Max(Ids(rows)) + 1

\* INSERT INTO <k> (id, ...) raises sqlite3.Error: id is the primary key and
\* amount is NOT NULL.
InsertFails(rows, id, amountLine) == id \in Ids(rows) \/ BindReal(amountLine) = NULL

\* Mutant of RecordRow: the description is not written.
RecordRowNoDescription(id, date, cid, desc, amountLine) ==
  [id |-> id, date |-> date, category_id |-> cid, description |-> "",
   amount |-> FloatOf(amountLine)]

\* the row INSERT INTO <k> (id, date, category_id, description, amount) adds
RecordRow(id, date, cid, desc, amountLine) ==
  [id |-> id, date |-> date, category_id |-> cid, description |-> desc,
   amount |-> FloatOf(amountLine)]

\* DELETE FROM <k> WHERE id = ?
DeleteRecord(rows, id) == {r \in rows : r.id # id}

\* SELECT ... FROM <k> JOIN <k>_categories ON <k>.category_id = <k>_categories.id
ListRecords(rows, cats) ==
  {[id |-> r.id, date |-> r.date, name |-> c.name,
    description |-> r.description, amount |-> r.amount] :
      <<r, c>> \in {p \in rows \X cats : p[1].category_id = p[2].id}}

\* Mutant of PruneOrphans: the subquery selects id instead of category_id.
PruneByRecordId(cats, rows) == {c \in cats : c.id \in Ids(rows)}

\* DELETE FROM <k>_categories WHERE id NOT IN (SELECT DISTINCT category_id FROM <k>)
PruneOrphans(cats, rows) == {c \in cats : c.id \in {r.category_id : r \in rows}}

(***************************************************************************)
(* Control: where the session goes after a step.                           *)
(***************************************************************************)
\* History: the ids of the category rows the step deletes from the table of
\* the running handler.
Gone ==
  IF kind \in Kinds THEN Ids(categories[kind]) \ Ids(categories'[kind]) ELSE {}

\* the handler returns to the menu loop of main(); of its locals only the
\* lines its last step read stay visible
Return(l, o) ==
  /\ pc' = "menu" /\ kind' = "none" /\ loc' = l /\ out' = o /\ prev' = <<pc, kind, Gone>>
  /\ report' = NULL /\ started' = started

\* the handler stays in its loops and prompts at p; a step back to the head of
\* a loop keeps only the lines it read itself
At(p, l, o) ==
  /\ pc' = p /\ kind' = kind /\ loc' = l /\ out' = o /\ prev' = <<pc, kind, Gone>>
  /\ report' = NULL /\ started' = started

\* main() calls a handler that prompts first at p
Call(p, k) ==
  /\ pc' = p /\ kind' = k /\ loc' = NoLocals /\ out' = "" /\ prev' = <<pc, kind, Gone>>
  /\ report' = NULL
  /\ started' = IF started = << >> THEN << >> ELSE <<records[k], categories[k]>>

\* the handler prints the figures r and returns to the menu loop
Show(l, o, r) ==
  /\ pc' = "menu" /\ kind' = "none" /\ loc' = l /\ out' = o /\ prev' = <<pc, kind, Gone>>
  /\ report' = r /\ started' = started

\* an exception no handler catches leaves main(): the process ends with a traceback
Crash(l, o) ==
  /\ pc' = "crashed" /\ kind' = kind /\ loc' = l /\ out' = o
  /\ prev' = <<pc, kind, Gone>>
  /\ report' = NULL /\ started' = started

DbSame == UNCHANGED <<records, categories, catSeq, retired, goals>>

\* History: the ids that were the maximum of their table and are deleted by
\* the step, for the kinds whose history is recorded.
Retire(k) ==
  {n \in Ids(records[k]) : n = Max(Ids(records[k])) /\ n \notin Ids(records'[k])}

Retiring == retired' = [k \in DOMAIN retired |-> retired[k] \cup Retire(k)]

\* The bounds of the model: a step that would pass them is not taken.
CanInsertRecord(id) ==
  /\ id <= MaxId
  /\ Cardinality(records["expense"]) + Cardinality(records["income"]) < MaxRecords

CanInsertCategory(seq) ==
  seq = catSeq[kind] \/ catSeq["expense"] + catSeq["income"] < MaxCategories

InitStore ==
  /\ records = [k \in Kinds |-> {}]
  /\ categories = [k \in Kinds |-> {}]
  /\ catSeq = [k \in Kinds |-> 0]
  /\ pc = "menu"
  /\ kind = "none"
  /\ loc = NoLocals
  /\ out = ""
  /\ prev = <<"start", "none", {}>>
  /\ goals = {}
  /\ report = NULL

\* The histories of retired ids and of the tables at a call are not recorded.
Init == InitStore /\ retired = << >> /\ started = << >>

(***************************************************************************)
(* add_expense / add_income                                                *)
(***************************************************************************)
ChooseAdd(k) == pc = "menu" /\ DbSame /\ Call("add_date", k)

\* the date prompt; a valid date is followed by the category and description
AddDate ==
  /\ pc = "add_date"
  /\ DbSame
  /\ \E d \in DateInputs :
       IF ~IsDate(Lower(d))
       THEN At("add_date", [NoLocals EXCEPT !.date = d], "invalid date")
       ELSE \E c \in NameInputs, s \in DescInputs :
              At("add_amount",
                 [NoLocals EXCEPT !.date = d, !.category = c, !.description = s], "")

\* the amount prompt; a number is followed by the writes of the try block
AddAmount ==
  /\ pc = "add_amount"
  /\ \E a \in AmountInputs :
       LET line == Strip(a)
           l == [loc EXCEPT !.amount = a]
           name == Lower(loc.category)
           cats == ResolveCategories(categories[kind], catSeq[kind], name)
           seq == ResolveSeq(categories[kind], catSeq[kind], name)
           cid == ResolveCategoryId(categories[kind], catSeq[kind], name)
           id == NewId(records[kind])
       IN
         IF line = ""
         THEN DbSame /\ At("add_amount", l, "empty amount")
         ELSE IF ~IsFloat(line)
         THEN DbSame /\ At("add_amount", l, "invalid amount")
         ELSE /\ CanInsertCategory(seq)
              /\ CanInsertRecord(id)
              /\ categories' = [categories EXCEPT ![kind] = cats]
              /\ catSeq' = [catSeq EXCEPT ![kind] = seq]
              /\ IF InsertFails(records[kind], id, line)
                 THEN /\ UNCHANGED <<records, retired, goals>>
                      /\ At("add_date", [NoLocals EXCEPT !.amount = a], "error")
                 ELSE /\ records' = [records EXCEPT ![kind] = @ \cup
                            {RecordRow(id, Lower(loc.date), cid,
                                       Lower(loc.description), line)}]
                      /\ UNCHANGED <<retired, goals>>
                      /\ At("add_confirm", [l EXCEPT !.new_id = id], "")

\* the confirmation prompt
AddConfirm ==
  /\ pc = "add_confirm"
  /\ \E c \in ConfirmInputs :
       LET l == [NoLocals EXCEPT !.choice = c] IN
         IF Lower(c) = "yes"
         THEN DbSame /\ Return(l, "added")
         ELSE IF Lower(c) = "no"
         THEN /\ records' = [records EXCEPT ![kind] = DeleteRecord(@, loc.new_id)]
              /\ Retiring
              /\ UNCHANGED <<categories, catSeq, goals>>
              /\ Return(l, "not added")
         ELSE DbSame /\ At("add_confirm", [loc EXCEPT !.choice = c], "invalid choice")

(***************************************************************************)
(* view_expenses / view_income                                             *)
(***************************************************************************)
ChooseView(k) ==
  /\ pc = "menu"
  /\ DbSame
  /\ IF ListRecords(records[k], categories[k]) = {}
     THEN Return(NoLocals, "none found")
     ELSE Call("view_id", k)

\* Mutant of RecordExists: the id is compared with the largest id of the table.
RecordExistsUpToMax(rows, id) == \E r \in rows : id <= r.id

\* SELECT id FROM <k> WHERE id = ? returns a row
RecordExists(rows, id) == id \in Ids(rows)

\* the id prompt, the head of the handler's loop
ViewId ==
  /\ pc = "view_id"
  /\ DbSame
  /\ \E a \in IdInputs :
       LET s == Lower(Strip(a))
           l == [NoLocals EXCEPT !.action = a]
       IN
         IF s = "back" THEN Return(l, "")
         ELSE IF ~IsInt(s) THEN At("view_id", l, "invalid id")
         ELSE IF ~RecordExists(records[kind], IntOf(s))
         THEN At("view_id", l, "id not found")
         ELSE At("view_choice", l, "")

\* expense_id = int(action)
RecordId(l) == IntOf(Lower(Strip(l.action)))

\* the update/delete prompt
ViewChoice ==
  /\ pc = "view_choice"
  /\ \E c \in ChoiceInputs :
       LET s == Lower(Strip(c))
           l == [loc EXCEPT !.choice = c]
       IN
         IF s = "delete"
         THEN /\ records' = [records EXCEPT ![kind] = DeleteRecord(@, RecordId(loc))]
              /\ Retiring
              /\ UNCHANGED <<categories, catSeq, goals>>
              /\ Return([NoLocals EXCEPT !.choice = c], "deleted")
         ELSE IF s = "update"
         THEN DbSame /\ At("upd_date", l, "")
         ELSE DbSame /\ At("view_id", [NoLocals EXCEPT !.choice = c], "invalid choice")

\* the new-date prompt of an update
UpdDate ==
  /\ pc = "upd_date"
  /\ DbSame
  /\ \E d \in NewDateInputs :
       LET nd == Lower(Strip(d))
           l == [loc EXCEPT !.date = d]
       IN
         IF nd # "" /\ ~IsDate(nd)
         THEN At("view_id", [NoLocals EXCEPT !.date = d], "invalid date")
         ELSE At("upd_rest", l, "")

\* Mutant of UpdateFields: the date is written although none was supplied.
UpdateFieldsWritesDate(rows, id, nd, setCat, cid, ns, setAmount, amountLine) ==
  {IF r.id # id THEN r
   ELSE [r EXCEPT !.date = nd,
                  !.category_id = IF setCat THEN cid ELSE @,
                  !.description = IF ns # "" THEN ns ELSE @,
                  !.amount = IF setAmount THEN FloatOf(amountLine) ELSE @] :
     r \in rows}

\* UPDATE <k> SET <field> = ? WHERE id = ?, for the fields the user supplied
UpdateFields(rows, id, nd, setCat, cid, ns, setAmount, amountLine) ==
  {IF r.id # id THEN r
   ELSE [r EXCEPT !.date = IF nd # "" THEN nd ELSE @,
                  !.category_id = IF setCat THEN cid ELSE @,
                  !.description = IF ns # "" THEN ns ELSE @,
                  !.amount = IF setAmount THEN FloatOf(amountLine) ELSE @] :
     r \in rows}

\* the category, description and amount prompts of an update, and its writes
UpdRest ==
  /\ pc = "upd_rest"
  /\ \E c \in NewCategoryInputs, s \in DescInputs, a \in NewAmountInputs :
       LET line == Strip(a)
           l == [loc EXCEPT !.category = c, !.description = s, !.amount = a]
           nd == Lower(Strip(loc.date))
           nc == Lower(Strip(c))
           ns == Lower(Strip(s))
           cats == IF nc = "" THEN categories[kind]
                   ELSE ResolveCategories(categories[kind], catSeq[kind], nc)
           seq == IF nc = "" THEN catSeq[kind]
                  ELSE ResolveSeq(categories[kind], catSeq[kind], nc)
           cid == ResolveCategoryId(categories[kind], catSeq[kind], nc)
           fails == line # "" /\ BindReal(line) = NULL
       IN
         IF line # "" /\ ~IsFloat(line)
         THEN DbSame /\ At("view_id", [NoLocals EXCEPT !.amount = a], "invalid amount")
         ELSE /\ CanInsertCategory(seq)
              /\ categories' = [categories EXCEPT ![kind] = cats]
              /\ catSeq' = [catSeq EXCEPT ![kind] = seq]
              /\ records' = [records EXCEPT ![kind] =
                     UpdateFields(@, RecordId(loc), nd, nc # "", cid, ns,
                                  line # "" /\ ~fails, line)]
              /\ UNCHANGED <<retired, goals>>
              /\ Return([NoLocals EXCEPT !.date = loc.date, !.category = c,
                                           !.description = s, !.amount = a],
                        IF fails THEN "error" ELSE "updated")

(***************************************************************************)
(* view_expenses_by_category / view_income_by_category                     *)
(***************************************************************************)
ChooseBrowse(k) ==
  /\ pc = "menu"
  /\ DbSame
  /\ IF categories[k] = {}
     THEN Return(NoLocals, "none found")
     ELSE Call("cat_id", k)

\* the category-id prompt, the head of the handler's loop; 'back' prunes
CatId ==
  /\ pc = "cat_id"
  /\ \E a \in IdInputs :
       LET s == Lower(Strip(a))
           l == [NoLocals EXCEPT !.action = a]
       IN
         IF s = "back"
         THEN /\ categories' = [categories EXCEPT ![kind] =
                                  PruneOrphans(@, records[kind])]
              /\ UNCHANGED <<records, catSeq, retired, goals>>
              /\ Return(l, "")
         ELSE IF ~IsInt(s) THEN DbSame /\ At("cat_id", l, "invalid id")
         ELSE IF IntOf(s) \notin Ids(categories[kind])
         THEN DbSame /\ At("cat_id", l, "id not found")
         ELSE DbSame /\ At("cat_choice", l, "")

\* Mutant of DeleteRecordsOf: the records of the category are not deleted.
DeleteRecordsOfNone(rows, cid) == rows

\* DELETE FROM <k> WHERE category_id = ?
DeleteRecordsOf(rows, cid) == {r \in rows : r.category_id # cid}

\* Mutant of DeleteCategory: the DELETE has no WHERE clause.
DeleteCategoryAll(cats, cid) == {}

\* DELETE FROM <k>_categories WHERE id = ?
DeleteCategory(cats, cid) == {c \in cats : c.id # cid}

\* the update/delete/back prompt of a category
CatChoice ==
  /\ pc = "cat_choice"
  /\ \E c \in ChoiceInputs :
       LET s == Lower(Strip(c))
           l == [loc EXCEPT !.choice = c]
           cid == RecordId(loc)
       IN
         IF s = "delete"
         THEN /\ records' = [records EXCEPT ![kind] = DeleteRecordsOf(@, cid)]
              /\ Retiring
              /\ categories' = [categories EXCEPT ![kind] = DeleteCategory(@, cid)]
              /\ UNCHANGED <<catSeq, goals>>
              /\ Return([NoLocals EXCEPT !.choice = c], "category deleted")
         ELSE IF s = "update" THEN DbSame /\ At("cat_name", l, "")
         ELSE IF s = "back" THEN DbSame /\ At("cat_id", [NoLocals EXCEPT !.choice = c], "")
         ELSE DbSame /\ At("cat_id", [NoLocals EXCEPT !.choice = c], "invalid choice")

\* Mutant of RenameFails: the name column is not declared UNIQUE.
RenameNeverFails(cats, cid, name) == FALSE

\* UPDATE <k>_categories SET name = ? WHERE id = ? raises sqlite3.Error: name is UNIQUE
RenameFails(cats, cid, name) == \E c \in cats : c.id # cid /\ c.name = name

RenameCategory(cats, cid, name) ==
  {IF c.id = cid THEN [c EXCEPT !.name = name] ELSE c : c \in cats}

\* the new-name prompt of a category
CatName ==
  /\ pc = "cat_name"
  /\ \E n \in NewNameInputs :
       LET new_name == Strip(n)
           l == [loc EXCEPT !.category = n]
           cid == RecordId(loc)
       IN
         IF new_name = ""
         THEN DbSame /\ At("cat_id", [NoLocals EXCEPT !.category = n], "")
         ELSE IF RenameFails(categories[kind], cid, new_name)
         THEN DbSame /\ Return([NoLocals EXCEPT !.category = n], "error")
         ELSE /\ categories' = [categories EXCEPT ![kind] =
                                  RenameCategory(@, cid, new_name)]
              /\ UNCHANGED <<records, catSeq, retired, goals>>
              /\ Return([NoLocals EXCEPT !.category = n], "category renamed")

(***************************************************************************)
(* set_budget                                                              *)
(***************************************************************************)
ChooseSetBudget ==
  /\ pc = "menu"
  /\ DbSame
  /\ IF categories["expense"] = {}
     THEN Return(NoLocals, "none found")
     ELSE Call("bud_id", "expense")

\* the category-id prompt of set_budget
BudId ==
  /\ pc = "bud_id"
  /\ DbSame
  /\ \E a \in IdInputs :
       LET s == Strip(a)
           l == [NoLocals EXCEPT !.action = a]
       IN
         IF ~IsInt(s) THEN At("bud_id", l, "invalid id")
         ELSE IF IntOf(s) \notin Ids(categories["expense"])
         THEN Return(l, "id not found")
         ELSE At("bud_limit", l, "")

\* budget_limit <= 0, for the float the line parses to
NotPositive(line) == ~IsNaN(line) /\ FloatOf(line) <= 0

\* UPDATE expense_categories SET budget_limit = ? WHERE id = ?
SetBudgetLimit(cats, cid, line) ==
  {IF c.id = cid THEN [c EXCEPT !.budget_limit = BindReal(line)] ELSE c : c \in cats}

\* the budget-limit prompt
BudLimit ==
  /\ pc = "bud_limit"
  /\ \E a \in BudgetInputs :
       LET line == Strip(a)
           l == [loc EXCEPT !.amount = a]
       IN
         IF ~IsFloat(line) THEN DbSame /\ At("bud_limit", l, "invalid amount")
         ELSE IF NotPositive(line) THEN DbSame /\ At("bud_limit", l, "not positive")
         ELSE /\ categories' = [categories EXCEPT !["expense"] =
                                  SetBudgetLimit(@, IntOf(Strip(loc.action)), line)]
              /\ UNCHANGED <<records, catSeq, retired, goals>>
              /\ Return([NoLocals EXCEPT !.amount = a], "budget set")

(***************************************************************************)
(* view_budget                                                             *)
(***************************************************************************)
RECURSIVE SumAmounts(_)
\* SELECT SUM(amount) over the rows, taken as 0 when there is none
SumAmounts(rows) ==
  IF rows = {} THEN 0
  ELSE LET r == CHOOSE x \in rows : TRUE IN r.amount + SumAmounts(rows \ {r})

\* Mutant of CategoryTotal: the sum is not restricted to the category.
CategoryTotalOfAll(rows, cid) == SumAmounts(rows)

\* SELECT SUM(amount) FROM expenses WHERE category_id = ?
CategoryTotal(rows, cid) == SumAmounts({r \in rows : r.category_id = cid})

\* SELECT budget_limit FROM expense_categories WHERE id = ?
BudgetLimitOf(cats, cid) == (CHOOSE c \in cats : c.id = cid).budget_limit

\* the figures of the budget overview
BudgetOverview(cats, rows, cid) ==
  LET set_budget == BudgetLimitOf(cats, cid)[1]
      total_expenses == CategoryTotal(rows, cid)
  IN [category_id |-> cid, limit |-> set_budget, total |-> total_expenses,
      remaining |-> set_budget - total_expenses]

ChooseViewBudget ==
  /\ pc = "menu"
  /\ DbSame
  /\ IF categories["expense"] = {}
     THEN Return(NoLocals, "none found")
     ELSE Call("vb_id", "expense")

\* the category-id prompt of view_budget; None - float raises TypeError
ViewBudgetId ==
  /\ pc = "vb_id"
  /\ DbSame
  /\ \E a \in IdInputs :
       LET s == Lower(Strip(a))
           l == [NoLocals EXCEPT !.action = a]
       IN
         IF s = "back" THEN Return(l, "")
         ELSE IF ~IsInt(s) THEN At("vb_id", l, "invalid id")
         ELSE IF IntOf(s) \notin Ids(categories["expense"])
         THEN At("vb_id", l, "id not found")
         ELSE IF BudgetLimitOf(categories["expense"], IntOf(s)) = NULL
         THEN Crash(l, "TypeError")
         ELSE Show(l, "budget shown",
                   BudgetOverview(categories["expense"], records["expense"], IntOf(s)))

(***************************************************************************)
(* set_goals                                                               *)
(***************************************************************************)
\* The bound of the model: set_goals is not called on a full goal table.
CanInsertGoal == Cardinality(goals) < MaxGoals

ChooseSetGoals == pc = "menu" /\ CanInsertGoal /\ DbSame /\ Call("goal_amount", "expense")

\* the goal-amount prompt
GoalAmount ==
  /\ pc = "goal_amount"
  /\ DbSame
  /\ \E a \in GoalAmountInputs :
       LET line == Strip(a)
           l == [NoLocals EXCEPT !.amount = a]
       IN
         IF ~IsFloat(line) \/ NotPositive(line)
         THEN At("goal_amount", l, "invalid amount")
         ELSE At("goal_date", l, "")

\* category_id of the goal: the id typed, None when the line is empty, is no
\* integer or is no id of an expense category
GoalCategory(cats, line) ==
  IF line # "" /\ IsInt(line) /\ IntOf(line) \in Ids(cats) THEN <<IntOf(line)>> ELSE NULL

\* INSERT INTO financial_goals raises sqlite3.Error: goal_amount is NOT NULL
GoalInsertFails(amountLine) == BindReal(amountLine) = NULL

\* Mutant of GoalRow: the category id typed is stored as it is.
GoalRowAnyCategory(rows, cats, amountLine, date, catLine) ==
  [id |-> Cardinality(rows) + 1, goal_amount |-> FloatOf(amountLine),
   target_date |-> date,
   category_id |-> IF IsInt(catLine) THEN <<IntOf(catLine)>> ELSE NULL]

\* the row INSERT INTO financial_goals (goal_amount, target_date, category_id)
\* adds; no row is ever deleted, so AUTOINCREMENT gives the number of rows + 1
GoalRow(rows, cats, amountLine, date, catLine) ==
  [id |-> Cardinality(rows) + 1, goal_amount |-> FloatOf(amountLine),
   target_date |-> date, category_id |-> GoalCategory(cats, catLine)]

\* the target-date prompt; a valid date is followed by the category prompt,
\* when there are expense categories, and by the insert
GoalDate ==
  /\ pc = "goal_date"
  /\ UNCHANGED <<records, categories, catSeq, retired>>
  /\ \E d \in GoalDateInputs :
       IF ~IsDate(Strip(d))
       THEN /\ UNCHANGED goals
            /\ At("goal_date", [loc EXCEPT !.date = d], "invalid date")
       ELSE \E c \in (IF categories["expense"] = {} THEN {""} ELSE GoalCategoryInputs) :
              LET l == [loc EXCEPT !.date = d, !.category = c] IN
                IF GoalInsertFails(Strip(loc.amount))
                THEN UNCHANGED goals /\ Return(l, "error")
                ELSE /\ goals' = goals \cup
                           {GoalRow(goals, categories["expense"], Strip(loc.amount),
                                    Strip(d), Strip(c))}
                     /\ Return(l, "goal set")

(***************************************************************************)
(* view_goals_progress                                                     *)
(***************************************************************************)
\* expense_categories.name of the LEFT JOIN, "General" when it is NULL or empty
GoalCategoryName(cats, g) ==
  LET named == {c.name : c \in {d \in cats : <<d.id>> = g.category_id}} IN
    IF named = {} \/ named = {""} THEN "General" ELSE CHOOSE n \in named : TRUE

\* SELECT SUM(amount) FROM <k> JOIN <k>_categories ... WHERE name = ?
NamedTotal(rows, cats, name) ==
  SumAmounts({r \in rows : \E c \in cats : c.id = r.category_id /\ c.name = name})

\* progress = total_income - total_expenses
GoalProgress(name) ==
  IF name = "General"
  THEN SumAmounts(records["income"]) - SumAmounts(records["expense"])
  ELSE NamedTotal(records["income"], categories["income"], name)
         - NamedTotal(records["expense"], categories["expense"], name)

\* Mutant of Percentage: the ratio is taken the other way round.
PercentageInverted(progress, goal_amount) ==
  IF progress # 0 THEN (goal_amount * 100) \div progress ELSE 0

\* (progress / goal_amount) * 100 if goal_amount != 0 else 0; the amounts of the
\* model divide without remainder
Percentage(progress, goal_amount) ==
  IF goal_amount # 0 THEN (progress * 100) \div goal_amount ELSE 0

\* the lines printed for goal g
GoalLine(g) ==
  LET category_name == GoalCategoryName(categories["expense"], g)
      progress == GoalProgress(category_name)
      remaining == g.goal_amount - progress
  IN [id |-> g.id, goal_amount |-> g.goal_amount, target_date |-> g.target_date,
      category |-> category_name, progress |-> progress, remaining |-> remaining,
      percentage |-> Percentage(progress, g.goal_amount),
      achieved |-> remaining < 0]

ChooseViewGoals ==
  /\ pc = "menu"
  /\ DbSame
  /\ IF goals = {}
     THEN Return(NoLocals, "none found")
     ELSE Show(NoLocals, "goals shown", {GoalLine(g) : g \in goals})

(***************************************************************************)
(* The session.                                                            *)
(***************************************************************************)
Next ==
  \/ \E k \in Kinds : ChooseAdd(k)
  \/ AddDate
  \/ AddAmount
  \/ AddConfirm
  \/ \E k \in Kinds : ChooseView(k)
  \/ ViewId
  \/ ViewChoice
  \/ UpdDate
  \/ UpdRest
  \/ \E k \in Kinds : ChooseBrowse(k)
  \/ CatId
  \/ CatChoice
  \/ CatName
  \/ ChooseSetBudget
  \/ BudId
  \/ BudLimit

Spec == Init /\ [][Next]_vars

\* The add and view handlers of the expenses alone, with the history of
\* retired ids recorded.
InitIds == InitStore /\ retired = [k \in {"expense"} |-> {}] /\ started = << >>

NextIds ==
  \/ ChooseAdd("expense")
  \/ AddDate
  \/ AddAmount
  \/ AddConfirm
  \/ ChooseView("expense")
  \/ ViewId
  \/ ViewChoice
  \/ UpdDate
  \/ UpdRest

SpecIds == InitIds /\ [][NextIds]_vars

\* The handlers of the expenses and of their budgets.
NextBudget ==
  \/ ChooseAdd("expense")
  \/ AddDate
  \/ AddAmount
  \/ AddConfirm
  \/ ChooseSetBudget
  \/ BudId
  \/ BudLimit
  \/ ChooseViewBudget
  \/ ViewBudgetId

SpecBudget == Init /\ [][NextBudget]_vars

\* The add handlers, the expense categories and the goals.
NextGoals ==
  \/ \E k \in Kinds : ChooseAdd(k)
  \/ AddDate
  \/ AddAmount
  \/ AddConfirm
  \/ ChooseBrowse("expense")
  \/ CatId
  \/ CatChoice
  \/ CatName
  \/ ChooseSetGoals
  \/ GoalAmount
  \/ GoalDate
  \/ ChooseViewGoals

SpecGoals == Init /\ [][NextGoals]_vars

\* The add handlers alone, with the tables at the call of the handler recorded.
InitAbort == InitStore /\ retired = << >> /\ started = <<{}, {}>>

NextAbort ==
  \/ \E k \in Kinds : ChooseAdd(k)
  \/ AddDate
  \/ AddAmount
  \/ AddConfirm

SpecAbort == InitAbort /\ [][NextAbort]_vars

(***************************************************************************)
(* Properties.                                                             *)
(***************************************************************************)
OtherKind(k) == CHOOSE o \in Kinds : o # k

\* view_<kind>: the rows listed for kind k
Listing(k) == ListRecords(records[k], categories[k])

\* the rows listed for kind k after the step
ListingAfter(k) == ListRecords(records'[k], categories'[k])

\* the step of add_<kind> that wrote the record; the step that confirmed it
Inserted == pc = "add_amount" /\ pc' = "add_confirm"
Confirmed == pc = "add_confirm" /\ pc' = "menu" /\ out' = "added"

\* the row of the listing made of the lines as the user typed them
SuppliedRow(l) ==
  [id |-> l.new_id, date |-> l.date, name |-> l.category,
   description |-> l.description, amount |-> FloatOf(Strip(l.amount))]

\* the same row with the category name and the description in lower case
LowerCasedRow(l) ==
  [id |-> l.new_id, date |-> l.date, name |-> Lower(l.category),
   description |-> Lower(l.description), amount |-> FloatOf(Strip(l.amount))]

\* C1 as stated: after a confirmed add the listing of the kind holds exactly
\* one row with the new id, that row carries the date, category name,
\* description and amount as supplied, and every row listed before is still
\* listed unchanged.
C1_ListedRowCarriesSuppliedFields ==
  [][/\ Inserted =>
          /\ Listing(kind) \subseteq ListingAfter(kind)
          /\ {r \in ListingAfter(kind) : r.id = loc'.new_id} = {SuppliedRow(loc')}
     /\ Confirmed =>
          /\ ListingAfter(kind) = Listing(kind)
          /\ {r \in ListingAfter(kind) : r.id = loc.new_id} = {SuppliedRow(loc)}]_vars

\* C1 amended: after a confirmed add the listing of the kind holds exactly one
\* row with the new id, that row carries the supplied date and amount and the
\* supplied category name and description converted to lower case, and every
\* row listed before is still listed unchanged.
C1_ListedRowCarriesLowerCasedFields ==
  [][/\ Inserted =>
          /\ Listing(kind) \subseteq ListingAfter(kind)
          /\ ListingAfter(kind) \ Listing(kind) = {LowerCasedRow(loc')}
          /\ {r \in ListingAfter(kind) : r.id = loc'.new_id} = {LowerCasedRow(loc')}
     /\ Confirmed =>
          /\ ListingAfter(kind) = Listing(kind)
          /\ {r \in ListingAfter(kind) : r.id = loc.new_id} = {LowerCasedRow(loc)}]_vars

\* a confirmed add into a table that already listed a row
C1_Witness ==
  /\ pc = "menu" /\ out = "added" /\ prev[1] = "add_confirm"
  /\ Cardinality(Listing(prev[2])) = 2
  /\ \E r \in Listing(prev[2]) : r.amount < 0
  /\ \E r \in Listing(prev[2]) : r.amount > 0

C3_NewIdIsMaxPlusOne ==
  /\ [](\A k \in Kinds : \A r, q \in records[k] : r.id = q.id => r = q)
  /\ [][\A k \in Kinds : \A r \in records'[k] \ records[k] :
          (\A q \in records[k] : q.id # r.id) =>
            IF records[k] = {}
            THEN r.id = 1
            ELSE /\ \A q \in records[k] : q.id < r.id
                 /\ \E q \in records[k] : r.id = q.id + 1]_vars

\* an add into a table whose maximum id is not its number of rows
C3_Witness ==
  /\ pc = "add_confirm"
  /\ loc.new_id = 3
  /\ Cardinality(records[kind]) = 2

\* C4 as stated: an id that was deleted while it was the maximum of its table
\* is never assigned again, so no row of the table carries a retired id.
C4_RetiredIdNotReused ==
  \A k \in DOMAIN retired : Ids(records[k]) \cap retired[k] = {}

\* the line typed at the id prompt of view_<kind>, read as view_<kind> reads it
TypedId(l) == Lower(Strip(l.action))

\* C5: an id typed for update or delete that is not in the record table is
\* answered with not-found and the id is asked again, the record table and the
\* category table are unchanged, and the update and delete prompts are only
\* ever reached with an id that is in the table.
C5_UnknownIdChangesNothing ==
  /\ [](pc \in {"view_choice", "upd_date", "upd_rest"} =>
          \E r \in records[kind] : r.id = RecordId(loc))
  /\ [][(/\ pc = "view_id"
         /\ IsInt(TypedId(loc'))
         /\ \A r \in records[kind] : r.id # IntOf(TypedId(loc'))) =>
          /\ out' = "id not found"
          /\ pc' = "view_id"
          /\ records' = records
          /\ categories' = categories
          /\ catSeq' = catSeq]_vars

\* an id that is not in a non-empty table was typed
C5_Witness ==
  /\ pc = "view_id" /\ prev[1] = "view_id" /\ out = "id not found"
  /\ loc.action = "1"
  /\ Ids(records[kind]) = {2, 3}

\* the step of view_<kind> that wrote an update
Updated == pc = "upd_rest" /\ pc' = "menu"

\* C6: an update leaves every field whose prompt was answered with an empty
\* line as it was on the target record, writes the fields that were supplied,
\* and changes no other record of either kind; the category table is
\* unchanged when no category was supplied.
C6_UpdateKeepsUnsetFields ==
  [][Updated =>
       LET id == RecordId(loc)
           before == {r \in records[kind] : r.id = id}
           after == {r \in records'[kind] : r.id = id}
       IN
         /\ Cardinality(before) = 1 /\ Cardinality(after) = 1
         /\ {r \in records'[kind] : r.id # id} = {r \in records[kind] : r.id # id}
         /\ records'[OtherKind(kind)] = records[OtherKind(kind)]
         /\ categories'[OtherKind(kind)] = categories[OtherKind(kind)]
         /\ Strip(loc'.category) = "" => categories' = categories
         /\ \A r \in before, q \in after :
              /\ Strip(loc.date) = "" => q.date = r.date
              /\ Strip(loc'.category) = "" => q.category_id = r.category_id
              /\ Strip(loc'.description) = "" => q.description = r.description
              /\ Strip(loc'.amount) = "" => q.amount = r.amount
              /\ Strip(loc.date) # "" => q.date = Lower(Strip(loc.date))
              /\ Strip(loc'.description) # "" =>
                   q.description = Lower(Strip(loc'.description))
              /\ out' = "updated" /\ Strip(loc'.amount) # "" =>
                   q.amount = FloatOf(Strip(loc'.amount))]_vars

\* an update that supplied the description alone, beside another record
C6_Witness ==
  /\ pc = "menu" /\ prev[1] = "upd_rest" /\ out = "updated"
  /\ loc.date = "" /\ loc.category = "" /\ loc.amount = ""
  /\ loc.description = "Kit"
  /\ \E r, q \in records[prev[2]] :
       /\ r.description = "kit" /\ r.amount = -5
       /\ q.id # r.id /\ q.description = ""

\* C7: in every reachable state every record of a kind references a category
\* row of that kind.
C7_RecordsReferenceExistingCategories ==
  \A k \in Kinds : \A r \in records[k] : \E c \in categories[k] : c.id = r.category_id

\* a category was deleted, or pruned, while records of the kind remain
C7_Witness ==
  /\ pc = "menu" /\ prev[1] \in {"cat_choice", "cat_id"} /\ prev[3] # {}
  /\ records[prev[2]] # {}
  /\ \E r \in records[prev[2]] : r.category_id = 2

\* the step of view_<kind>_by_category that left through 'back'
Pruned == pc = "cat_id" /\ pc' = "menu"

\* C8: pruning deletes exactly the categories of the kind that no record
\* references: the rows that remain are the referenced ones, unchanged, and no
\* record and no category of the other kind changes.
C8_PruneRemovesExactlyOrphans ==
  [][Pruned =>
       /\ categories'[kind] =
            {c \in categories[kind] : \E r \in records[kind] : r.category_id = c.id}
       /\ records' = records
       /\ categories'[OtherKind(kind)] = categories[OtherKind(kind)]]_vars

\* a prune deleted a category and kept a referenced one with its budget limit
C8_Witness ==
  /\ pc = "menu" /\ prev[1] = "cat_id" /\ prev[3] # {}
  /\ \E c \in categories[prev[2]] : c.budget_limit # NULL

\* C9 as stated: on every return of view_<kind>_by_category to the menu no
\* category of the kind is left without a record.
C9_NoOrphanAfterBrowsing ==
  [][(pc \in {"cat_id", "cat_choice", "cat_name"} /\ pc' = "menu") =>
       \A c \in categories'[kind] : \E r \in records'[kind] : r.category_id = c.id]_vars

\* the line typed at the budget-limit prompt is a number greater than 0
SuppliedPositive(l) ==
  /\ IsFloat(Strip(l.amount))
  /\ ~IsNaN(Strip(l.amount))
  /\ FloatOf(Strip(l.amount)) > 0

\* C10 as stated: a budget limit of 0 or less is rejected and changes no
\* category; a stored limit changes only in set_budget when a number greater
\* than 0 is supplied; every stored limit is null or greater than 0.
C10_LimitChangesOnlyToPositive ==
  /\ [](\A c \in categories["expense"] :
          c.budget_limit = NULL \/ c.budget_limit[1] > 0)
  /\ [][/\ (/\ pc = "bud_limit"
            /\ IsFloat(Strip(loc'.amount))
            /\ ~IsNaN(Strip(loc'.amount))
            /\ FloatOf(Strip(loc'.amount)) <= 0) =>
              out' = "not positive" /\ categories' = categories
        /\ \A c \in categories["expense"], d \in categories'["expense"] :
             (c.id = d.id /\ c.budget_limit # d.budget_limit) =>
               pc = "bud_limit" /\ SuppliedPositive(loc')]_vars

\* the step of view_budget that printed the overview
BudgetShown == pc = "vb_id" /\ pc' = "menu" /\ out' = "budget shown"

\* C11: view_budget on a category whose limit is set prints the stored limit,
\* the sum of the amounts of the expenses of that category (0 when there are
\* none) and the limit minus that sum, and leaves the store unchanged.
C11_BudgetOverviewIsLimitTotalRemaining ==
  [][(/\ pc = "vb_id"
      /\ IsInt(TypedId(loc'))
      /\ \E c \in categories["expense"] :
           c.id = IntOf(TypedId(loc')) /\ c.budget_limit # NULL) =>
       LET cid == IntOf(TypedId(loc'))
           c == CHOOSE d \in categories["expense"] : d.id = cid
           mine == {r \in records["expense"] : r.category_id = cid}
       IN
         /\ BudgetShown
         /\ report'.category_id = cid
         /\ report'.limit = c.budget_limit[1]
         /\ report'.total = SumAmounts(mine)
         /\ mine = {} => report'.total = 0
         /\ report'.remaining = c.budget_limit[1] - SumAmounts(mine)
         /\ UNCHANGED <<records, categories, catSeq, goals>>]_vars

\* the overview of a category with two expenses, beside another category
C11_Witness ==
  /\ pc = "menu" /\ out = "budget shown" /\ report # NULL
  /\ report.limit = 25 /\ report.total = 10 /\ report.remaining = 15
  /\ Cardinality(categories["expense"]) = 2
  /\ Cardinality(records["expense"]) = 2

\* C12 as stated: view_budget on an expense category whose limit is null
\* reports a validation error, changes nothing in the store and returns to the
\* menu.
C12_NullLimitIsReported ==
  [][(/\ pc = "vb_id"
      /\ IsInt(TypedId(loc'))
      /\ \E c \in categories["expense"] :
           c.id = IntOf(TypedId(loc')) /\ c.budget_limit = NULL) =>
       /\ pc' = "menu"
       /\ out' = "no limit set"
       /\ UNCHANGED <<records, categories, catSeq, goals>>]_vars

\* C13 as stated: no step of any handler ends the process with an uncaught
\* exception.
C13_NoCrash == pc # "crashed"

\* the line of the listing of view_goals_progress for goal g
LineOf(g) == CHOOSE line \in report : line.id = g.id

\* the income records that belong to expense category c: those of the income
\* category that carries its name
IncomeOf(c) ==
  {r \in records["income"] :
     \E d \in categories["expense"], e \in categories["income"] :
       d.id = c /\ e.name = d.name /\ e.id = r.category_id}

\* C14 as stated: the listing holds one line for every goal; the progress of a
\* goal without a category is the sum of all income minus the sum of all
\* expenses, and the progress of a goal with a category is the sum of the
\* income minus the sum of the expenses of that category alone.
C14_ProgressScopedToCategory ==
  out = "goals shown" =>
    /\ {line.id : line \in report} = Ids(goals)
    /\ Cardinality(report) = Cardinality(goals)
    /\ \A g \in goals :
         LineOf(g).progress =
           IF g.category_id = NULL
           THEN SumAmounts(records["income"]) - SumAmounts(records["expense"])
           ELSE SumAmounts(IncomeOf(g.category_id[1]))
                  - SumAmounts({r \in records["expense"] :
                                  r.category_id = g.category_id[1]})

\* C15: every line of the listing gives remaining = goal amount - progress and
\* percentage = progress / goal amount * 100 (0 for a goal amount of 0), and
\* reports the goal as achieved exactly when remaining < 0.
C15_RemainingPercentageAchieved ==
  out = "goals shown" =>
    \A g \in goals : \E line \in report :
      /\ line.id = g.id
      /\ line.goal_amount = g.goal_amount
      /\ line.remaining = g.goal_amount - line.progress
      /\ IF g.goal_amount = 0 THEN line.percentage = 0
         ELSE line.percentage * g.goal_amount = line.progress * 100
      /\ line.achieved <=> g.goal_amount - line.progress < 0

\* a listing with a goal passed by its progress and a goal its progress equals
C15_Witness ==
  /\ out = "goals shown"
  /\ \E line \in report :
       /\ line.goal_amount = 10 /\ line.progress = 20 /\ line.remaining = -10
       /\ line.percentage = 200 /\ line.achieved
  /\ \E line \in report :
       /\ line.goal_amount = 20 /\ line.progress = 20 /\ line.remaining = 0
       /\ line.percentage = 100 /\ ~line.achieved

\* C16: a step adds at most one goal, and only set_goals does; the goal added
\* carries the amount typed, which is greater than 0, and the date typed, which
\* is a calendar date; its category is the id typed when that is the id of an
\* expense category and null otherwise; no step changes or deletes a goal.
C16_GoalStoredOnlyWhenValid ==
  /\ [](\A g \in goals : g.goal_amount > 0 /\ IsDate(g.target_date))
  /\ [][/\ goals \subseteq goals'
        /\ goals' # goals =>
             /\ pc = "goal_date"
             /\ Cardinality(goals' \ goals) = 1
             /\ \A g \in goals' \ goals :
                  /\ g.id \notin Ids(goals)
                  /\ g.goal_amount = FloatOf(Strip(loc.amount))
                  /\ g.goal_amount > 0
                  /\ g.target_date = Strip(loc'.date)
                  /\ IsDate(g.target_date)
                  /\ g.category_id # NULL =>
                       /\ ToString(g.category_id[1]) = Strip(loc'.category)
                       /\ g.category_id[1] \in Ids(categories["expense"])
                  /\ g.category_id = NULL =>
                       \A c \in categories["expense"] :
                         ToString(c.id) # Strip(loc'.category)]_vars

\* a goal stored without category for an id that is no expense category,
\* beside a goal that kept its category
C16_Witness ==
  /\ pc = "menu" /\ out = "goal set" /\ prev[1] = "goal_date"
  /\ loc.category = "2"
  /\ Ids(categories["expense"]) = {1}
  /\ \E g, h \in goals :
       /\ g.id = 1 /\ g.category_id = <<1>>
       /\ h.id = 2 /\ h.category_id = NULL

\* C17: no two categories of a kind carry the same name in any reachable
\* state; a rename to a name another category of the kind carries is rejected
\* and changes nothing; a step of a handler of one kind leaves the categories
\* of the other kind as they are.
C17_NamesUniqueWithinKind ==
  /\ [](\A k \in Kinds : \A c, d \in categories[k] : c.name = d.name => c = d)
  /\ [][/\ (/\ pc = "cat_name"
             /\ \E c \in categories[kind] :
                  c.id # RecordId(loc) /\ c.name = Strip(loc'.category)) =>
               /\ out' = "error"
               /\ UNCHANGED <<records, categories, catSeq>>
        /\ kind \in Kinds =>
             categories'[OtherKind(kind)] = categories[OtherKind(kind)]]_vars

\* a rename to the name of another category of the kind was rejected
C17_Witness ==
  /\ pc = "menu" /\ prev[1] = "cat_name" /\ out = "error"
  /\ loc.category = "rent"
  /\ {c.name : c \in categories[prev[2]]} = {"food", "rent"}

\* C18 as stated: no two categories of a kind carry names that differ only in
\* letter case in any reachable state, and an add or an update under a name that
\* differs only in case from the name of a category of the kind adds no
\* category.
C18_NamesCaseNormalized ==
  /\ [](\A k \in Kinds : \A c, d \in categories[k] :
          Lower(c.name) = Lower(d.name) => c = d)
  /\ [][/\ (/\ pc = "add_amount" /\ pc' # "add_amount"
             /\ \E c \in categories[kind] : Lower(c.name) = Lower(loc.category)) =>
               categories' = categories
        /\ (/\ pc = "upd_rest" /\ pc' = "menu"
            /\ \E c \in categories[kind] :
                 Lower(c.name) = Lower(Strip(loc'.category))) =>
               categories' = categories]_vars

\* C19 as stated: when an add is declined at the confirmation, or its insert
\* raises an error, the record table and the category table of the kind are as
\* they were when the handler was called.
C19_AbortedAddLeavesNoTrace ==
  [][(\/ pc = "add_confirm" /\ pc' = "menu" /\ out' = "not added"
      \/ pc = "add_amount" /\ out' = "error") =>
       /\ records'[kind] = started[1]
       /\ categories'[kind] = started[2]]_vars

\* the messages that report a line that failed validation
ValidationMessages ==
  {"invalid date", "empty amount", "invalid amount", "invalid id", "id not found",
   "not positive"}

\* C20 as stated: a step that reports a validation failure writes nothing to
\* the store and prompts again for the field it read: the handler neither
\* returns to the menu nor goes back to an earlier prompt.
C20_FailureRepromptsSameField ==
  [][out' \in ValidationMessages =>
       /\ UNCHANGED <<records, categories, catSeq, goals>>
       /\ pc' = pc]_vars

\* the step of view_<kind>_by_category that deleted a category
CategoryDeleted == pc = "cat_choice" /\ out' = "category deleted"

\* C21: deleting a category in view_<kind>_by_category removes that category
\* and the records that reference it and nothing else: the other categories of
\* the kind, the records of other categories, every row of the other kind and
\* the goals are unchanged.
C21_CategoryDeleteRemovesOnlyItsRows ==
  [][CategoryDeleted =>
       LET cid == RecordId(loc) IN
         /\ \E c \in categories[kind] : c.id = cid
         /\ categories'[kind] = {c \in categories[kind] : c.id # cid}
         /\ records'[kind] = {r \in records[kind] : r.category_id # cid}
         /\ categories'[OtherKind(kind)] = categories[OtherKind(kind)]
         /\ records'[OtherKind(kind)] = records[OtherKind(kind)]
         /\ UNCHANGED <<catSeq, goals>>]_vars

\* category 1 was deleted with its record; category 2 and its record remain
C21_Witness ==
  /\ pc = "menu" /\ prev[1] = "cat_choice" /\ out = "category deleted"
  /\ prev[3] = {1}
  /\ Ids(categories[prev[2]]) = {2}
  /\ \E r \in records[prev[2]] : r.id = 2 /\ r.category_id = 2
  /\ Cardinality(records[prev[2]]) = 1

\* C22 as stated: in every reachable state every goal with a category
\* references an expense category that exists, and the listing of
\* view_goals_progress never shows such a goal as General.
C22_GoalsReferenceExistingCategories ==
  /\ \A g \in goals :
       g.category_id # NULL =>
         \E c \in categories["expense"] : c.id = g.category_id[1]
  /\ out = "goals shown" =>
       \A g \in goals : g.category_id # NULL => LineOf(g).category # "General"

====
